---- MODULE Spec2Model ----
(***************************************************************************)
(* Model of the naughty tic-tac-toe core (src/src/lib.rs): the bit-packed  *)
(* Board with its winner query, and the Game turn wrapper.                 *)
(*                                                                         *)
(* A u32 is modelled as the set of its set bit positions (0 = least        *)
(* significant, 31 = most significant).  The word 0x80080080 does not fit  *)
(* a signed 32-bit integer, so the masks are kept as bit sets and the      *)
(* bitwise operators of the source are defined on them with their 32-bit   *)
(* width: a left shift drops what leaves bit 31.                           *)
(***************************************************************************)
EXTENDS Integers, FiniteSets, Sequences, TLC

VARIABLES game, arg, result, ctor, moves

vars == <<game, arg, result, ctor, moves>>

\* ------------------------------------------------------------------------
\* u32 arithmetic
\* ------------------------------------------------------------------------

\* width of the masks (u32)
Width == 32

BitPos == 0 .. (Width - 1)

\* the bits of one hexadecimal digit d placed at nibble n (n = 0 is the
\* least significant nibble)
NibbleBits(d, n) == { 4 * n + j : j \in { k \in 0..3 : (d \div (2 ^ k)) % 2 = 1 } }

\* the u32 written as the eight hexadecimal digits h[1] .. h[8], most
\* significant first
Hex(h) == UNION { NibbleBits(h[i], 8 - i) : i \in 1..8 }

BitAnd(a, b) == a \cap b

BitOr(a, b) == a \cup b

\* x << 1 on a u32: the bit shifted out of position 31 is lost
Shl1(a) == { i + 1 : i \in a } \cap BitPos

\* x >> 1 on a u32
Shr1(a) == { i - 1 : i \in a } \cap BitPos

\* the lowest set bit taken for the highest
Max_lowest(S) == CHOOSE i \in S : \A j \in S : i <= j

Max(S) == CHOOSE i \in S : \A j \in S : j <= i

\* u32::leading_zeros
leading_zeros(a) == IF a = {} THEN Width ELSE (Width - 1) - Max(a)

\* ------------------------------------------------------------------------
\* Mark, Square, Triple
\* ------------------------------------------------------------------------

Mark == {"Cross", "Naught"}

\* other() with both arms returning Naught
Mark_other_naught(m) == IF m = "Cross" THEN "Naught" ELSE "Naught"

Mark_other(m) == IF m = "Cross" THEN "Naught" ELSE "Cross"

Square == {"A1", "A2", "A3", "B1", "B2", "B3", "C1", "C2", "C3"}

\* the discriminants of enum Square
A1 == Hex(<<8, 0, 0, 8, 0, 0, 8, 0>>)   \* 0x80080080

A2 == Hex(<<4, 0, 0, 0, 8, 0, 0, 0>>)   \* 0x40008000

A3 == Hex(<<2, 0, 0, 0, 0, 8, 0, 8>>)   \* 0x20000808

B1 == Hex(<<0, 8, 0, 4, 0, 0, 0, 0>>)   \* 0x08040000

\* B2 without its bit in the last group: 0x04004040
B2_typo == Hex(<<0, 4, 0, 0, 4, 0, 4, 0>>)

B2 == Hex(<<0, 4, 0, 0, 4, 0, 4, 4>>)   \* 0x04004044

B3 == Hex(<<0, 2, 0, 0, 0, 4, 0, 0>>)   \* 0x02000400

C1 == Hex(<<0, 0, 8, 2, 0, 0, 0, 2>>)   \* 0x00820002

C2 == Hex(<<0, 0, 4, 0, 2, 0, 0, 0>>)   \* 0x00402000

C3 == Hex(<<0, 0, 2, 0, 0, 2, 2, 0>>)   \* 0x00200220

\* `square as u32`
SquareBits(s) ==
    CASE s = "A1" -> A1
      [] s = "A2" -> A2
      [] s = "A3" -> A3
      [] s = "B1" -> B1
      [] s = "B2" -> B2
      [] s = "B3" -> B3
      [] s = "C1" -> C1
      [] s = "C2" -> C2
      [] s = "C3" -> C3

Triple == {"RowA", "RowB", "RowC", "Col1", "Col2", "Col3", "Diag1", "Diag2"}

\* Triple::from with the arms of 6 and 7 exchanged
Triple_from_swapped(value) ==
    CASE value = 0 -> "RowA"
      [] value = 1 -> "RowB"
      [] value = 2 -> "RowC"
      [] value = 3 -> "Col1"
      [] value = 4 -> "Col2"
      [] value = 5 -> "Col3"
      [] value = 6 -> "Diag2"
      [] value = 7 -> "Diag1"
      [] OTHER -> "panic"

\* Triple::from(u32); "panic" is the fatal branch
Triple_from(value) ==
    CASE value = 0 -> "RowA"
      [] value = 1 -> "RowB"
      [] value = 2 -> "RowC"
      [] value = 3 -> "Col1"
      [] value = 4 -> "Col2"
      [] value = 5 -> "Col3"
      [] value = 6 -> "Diag1"
      [] value = 7 -> "Diag2"
      [] OTHER -> "panic"

\* ------------------------------------------------------------------------
\* Board
\* ------------------------------------------------------------------------

\* an empty Board with bit 0 of xboard set
Board_new_stray == [xboard |-> {0}, oboard |-> {}]

Board_new == [xboard |-> {}, oboard |-> {}]

\* the candidate word without its right-shifted term
Candidate_two(mask) == BitAnd(mask, Shl1(mask))

\* board & (board << 1) & (board >> 1)
Candidate(mask) == BitAnd(BitAnd(mask, Shl1(mask)), Shr1(mask))

\* the index without the shift by 2
TripleIndex_noshift(cand) ==
    IF leading_zeros(cand) = 0 THEN 1073741823
    ELSE leading_zeros(cand) - 1

\* the index taken from the number of trailing zeros
TripleIndex_trailing(cand) ==
    IF cand = {} THEN 8
    ELSE (CHOOSE i \in cand : \A j \in cand : i <= j) \div 4

\* (x.leading_zeros() - 1) >> 2 in u32.  With no leading zero the
\* subtraction overflows: a debug build panics there, a release build wraps
\* to 0xFFFFFFFF and the shift gives 0x3FFFFFFF, which Triple::from rejects
\* with its own panic; either way the query ends in a panic.
TripleIndex(cand) ==
    IF leading_zeros(cand) = 0 THEN 1073741823
    ELSE (leading_zeros(cand) - 1) \div 4

NoWinner == [kind |-> "None", mark |-> "none", triple |-> "none"]

Winner(m, t) ==
    IF t = "panic" THEN [kind |-> "Panic", mark |-> "none", triple |-> "none"]
    ELSE [kind |-> "Some", mark |-> m, triple |-> t]

\* the query answering only when exactly one mark has a candidate bit
Board_calculate_winner_exclusive(b) ==
    LET xboard == Candidate(b.xboard)
        oboard == Candidate(b.oboard)
    IN  IF xboard # {} /\ oboard = {}
        THEN Winner("Cross", Triple_from(TripleIndex(xboard)))
        ELSE IF oboard # {} /\ xboard = {}
        THEN Winner("Naught", Triple_from(TripleIndex(oboard)))
        ELSE NoWinner

\* the query with Naught examined first
Board_calculate_winner_ofirst(b) ==
    LET xboard == Candidate(b.xboard)
        oboard == Candidate(b.oboard)
    IN  IF oboard # {} THEN Winner("Naught", Triple_from(TripleIndex(oboard)))
        ELSE IF xboard # {} THEN Winner("Cross", Triple_from(TripleIndex(xboard)))
        ELSE NoWinner

Board_calculate_winner(b) ==
    LET xboard == Candidate(b.xboard)
        oboard == Candidate(b.oboard)
    IN  IF xboard # {} THEN Winner("Cross", Triple_from(TripleIndex(xboard)))
        ELSE IF oboard # {} THEN Winner("Naught", Triple_from(TripleIndex(oboard)))
        ELSE NoWinner

\* check_index that accepts every square
check_index_always(b, square) == TRUE

\* check_index looking at Cross's mask only
check_index_xonly(b, square) ==
    BitAnd(SquareBits(square), b.xboard) = {}

\* check_index looking at Naught's mask only
check_index_oonly(b, square) ==
    BitAnd(SquareBits(square), b.oboard) = {}

\* Ok(()) is TRUE, Err(IndexError(square)) is FALSE
check_index(b, square) ==
    BitAnd(SquareBits(square), BitOr(b.xboard, b.oboard)) = {}

\* make_move with the masks of the two arms exchanged
Board_make_move_swapped(b, mark, square) ==
    IF ~check_index(b, square)
    THEN [ok |-> FALSE, err |-> square, board |-> "none"]
    ELSE [ok |-> TRUE, err |-> "none",
          board |-> IF mark = "Cross"
                    THEN [xboard |-> b.xboard,
                          oboard |-> BitOr(b.oboard, SquareBits(square))]
                    ELSE [xboard |-> BitOr(b.xboard, SquareBits(square)),
                          oboard |-> b.oboard]]

\* make_move whose Naught arm also writes the square into xboard
Board_make_move_both(b, mark, square) ==
    IF ~check_index(b, square)
    THEN [ok |-> FALSE, err |-> square, board |-> "none"]
    ELSE [ok |-> TRUE, err |-> "none",
          board |-> IF mark = "Cross"
                    THEN [xboard |-> BitOr(b.xboard, SquareBits(square)),
                          oboard |-> b.oboard]
                    ELSE [xboard |-> BitOr(b.xboard, SquareBits(square)),
                          oboard |-> BitOr(b.oboard, SquareBits(square))]]

\* Result<Board, ErrorKind>: on Err, err is the square IndexError carries
\* and no Board is produced (board is the filler "none")
Board_make_move(b, mark, square) ==
    IF ~check_index(b, square)
    THEN [ok |-> FALSE, err |-> square, board |-> "none"]
    ELSE [ok |-> TRUE, err |-> "none",
          board |-> IF mark = "Cross"
                    THEN [xboard |-> BitOr(b.xboard, SquareBits(square)),
                          oboard |-> b.oboard]
                    ELSE [xboard |-> b.xboard,
                          oboard |-> BitOr(b.oboard, SquareBits(square))]]

\* ------------------------------------------------------------------------
\* Game
\* ------------------------------------------------------------------------

Game_new(starting_mark) == [current_mark |-> starting_mark, board |-> Board_new]

\* default() with Naught to move
Game_default_naught == [current_mark |-> "Naught", board |-> Board_new]

Game_default == [current_mark |-> "Cross", board |-> Board_new]

\* make_move that refuses to play on once a winner exists
Game_make_move_stop(g, square) ==
    LET current_state == Board_make_move(g.board, g.current_mark, square)
    IN  IF ~current_state.ok \/ Board_calculate_winner(g.board).kind = "Some"
        THEN [ok |-> FALSE, err |-> square, game |-> "none"]
        ELSE [ok |-> TRUE, err |-> "none",
              game |-> [current_mark |-> Mark_other(g.current_mark),
                        board |-> current_state.board]]

\* make_move that keeps current_mark on success
Game_make_move_noflip(g, square) ==
    LET current_state == Board_make_move(g.board, g.current_mark, square)
    IN  IF ~current_state.ok
        THEN [ok |-> FALSE, err |-> current_state.err, game |-> "none"]
        ELSE [ok |-> TRUE, err |-> "none",
              game |-> [current_mark |-> g.current_mark,
                        board |-> current_state.board]]

\* Result<Game, ErrorKind>
Game_make_move(g, square) ==
    LET current_state == Board_make_move(g.board, g.current_mark, square)
    IN  IF ~current_state.ok
        THEN [ok |-> FALSE, err |-> current_state.err, game |-> "none"]
        ELSE [ok |-> TRUE, err |-> "none",
              game |-> [current_mark |-> Mark_other(g.current_mark),
                        board |-> current_state.board]]

Game_calculate_winner(g) == Board_calculate_winner(g.board)

\* ------------------------------------------------------------------------
\* The caller: holds one Game value, built by Game::new or Game::default,
\* and replaces it by the Game a successful make_move returns.  arg is the
\* square of the last call, result its outcome.  ctor is the constructor
\* call that built the first Game, moves the number of make_move calls that
\* have returned Ok since.
\* ------------------------------------------------------------------------

\* the constructor calls: Game::new(m) for each mark, and Game::default()
Ctor ==
    { [op |-> "new", starting_mark |-> m] : m \in Mark }
    \cup { [op |-> "default", starting_mark |-> "none"] }

Init ==
    /\ \E c \in Ctor :
          /\ ctor = c
          /\ game = IF c.op = "new" THEN Game_new(c.starting_mark) ELSE Game_default
    /\ arg = "none"
    /\ result = [kind |-> "New", err |-> "none"]
    /\ moves = 0

MakeMove(square) ==
    LET r == Game_make_move(game, square)
    IN  /\ arg' = square
        /\ IF r.ok
           THEN /\ game' = r.game
                /\ result' = [kind |-> "Ok", err |-> "none"]
                /\ moves' = moves + 1
           ELSE /\ game' = game
                /\ result' = [kind |-> "Err", err |-> r.err]
                /\ moves' = moves
        /\ UNCHANGED ctor

\* Game::calculate_winner(&self): a query, the Game is left as it is and
\* result is the Option it returns
CalculateWinner ==
    /\ result' = Game_calculate_winner(game)
    /\ arg' = "none"
    /\ UNCHANGED <<game, ctor, moves>>

Next ==
    \/ \E square \in Square : MakeMove(square)
    \/ CalculateWinner

Spec == Init /\ [][Next]_vars

\* ------------------------------------------------------------------------
\* The winner query on arbitrary Board values: each mask is the OR of the
\* constants of any set of squares, the two sets disjoint, whether or not
\* play can produce the board.
\* ------------------------------------------------------------------------

\* the OR of the constants of a set of squares
OrOf(S) == UNION { SquareBits(s) : s \in S }

InitBoards ==
    /\ \E xs \in SUBSET Square : \E os \in SUBSET (Square \ xs) : \E m \in Mark :
          game = [current_mark |-> m,
                  board |-> [xboard |-> OrOf(xs), oboard |-> OrOf(os)]]
    /\ ctor = [op |-> "value", starting_mark |-> "none"]
    /\ arg = "none"
    /\ result = [kind |-> "New", err |-> "none"]
    /\ moves = 0

NextBoards == CalculateWinner

SpecBoards == InitBoards /\ [][NextBoards]_vars

\* ------------------------------------------------------------------------
\* Vocabulary of the properties
\* ------------------------------------------------------------------------

MaskOf(b, m) == IF m = "Cross" THEN b.xboard ELSE b.oboard

\* the squares a mark occupies on a board
Held(b, m) == { s \in Square : SquareBits(s) \subseteq MaskOf(b, m) }

OccupiedSquares(b) == Held(b, "Cross") \cup Held(b, "Naught")

\* the three squares of each winning line of the 3x3 grid
TripleSquares(t) ==
    CASE t = "RowA" -> {"A1", "A2", "A3"}
      [] t = "RowB" -> {"B1", "B2", "B3"}
      [] t = "RowC" -> {"C1", "C2", "C3"}
      [] t = "Col1" -> {"A1", "B1", "C1"}
      [] t = "Col2" -> {"A2", "B2", "C2"}
      [] t = "Col3" -> {"A3", "B3", "C3"}
      [] t = "Diag1" -> {"A1", "B2", "C3"}
      [] t = "Diag2" -> {"A3", "B2", "C1"}

\* position of a triple in the order RowA, RowB, ..., Diag2
TripleOrd(t) == CHOOSE i \in 0..7 : Triple_from(i) = t

\* the triples a mark fully occupies
Complete(b, m) == { t \in Triple : TripleSquares(t) \subseteq Held(b, m) }

\* the board before the last successful move, which put arg for the mark
\* that is no longer to move
Previous ==
    LET m == Mark_other(game.current_mark)
    IN  IF m = "Cross"
        THEN [xboard |-> game.board.xboard \ SquareBits(arg), oboard |-> game.board.oboard]
        ELSE [xboard |-> game.board.xboard, oboard |-> game.board.oboard \ SquareBits(arg)]

\* ------------------------------------------------------------------------
\* Properties
\* ------------------------------------------------------------------------

\* C1 (Exclusivity): in every state reached from Game::new(m) or
\* Game::default() by make_move calls, successful or failed, the two
\* occupancy masks are disjoint: xboard & oboard == 0.
C1_Exclusivity == BitAnd(game.board.xboard, game.board.oboard) = {}

\* a failed call on a board where both marks have moved
C1_Witness ==
    /\ result.kind = "Err"
    /\ game.board.xboard # {}
    /\ game.board.oboard # {}

\* C2 (Legality): on every reachable Board, for every mark m and every
\* unoccupied square s, Board::make_move(m, s) succeeds, m's mask of the
\* returned Board is m's old mask with exactly the bits of s added (so m
\* holds its old squares and s) and the other mark's mask is unchanged.
C2_Legality ==
    \A m \in Mark : \A s \in Square \ OccupiedSquares(game.board) :
        LET r == Board_make_move(game.board, m, s)
        IN  /\ r.ok
            /\ MaskOf(r.board, m) = MaskOf(game.board, m) \cup SquareBits(s)
            /\ MaskOf(r.board, m) \ MaskOf(game.board, m) = SquareBits(s)
            /\ MaskOf(r.board, Mark_other(m)) = MaskOf(game.board, Mark_other(m))
            /\ Held(r.board, m) = Held(game.board, m) \cup {s}
            /\ Held(r.board, Mark_other(m)) = Held(game.board, Mark_other(m))

\* a successful move into a board that already had squares of both marks
C2_Witness ==
    /\ result.kind = "Ok"
    /\ arg \in Held(game.board, Mark_other(game.current_mark))
    /\ Cardinality(OccupiedSquares(game.board)) >= 4
    /\ Square \ OccupiedSquares(game.board) # {}

\* C3 (Rejection): on every reachable Board, for every square s occupied by
\* either mark and every mover (the holder of s included), make_move fails
\* with the occupied-square error carrying exactly s and produces no Board;
\* the call made on the Game fails the same way and leaves both masks as
\* they were.
C3_Rejection ==
    [][ \A s \in OccupiedSquares(game.board) :
          /\ \A m \in Mark :
                LET r == Board_make_move(game.board, m, s)
                IN  ~r.ok /\ r.err = s /\ r.board = "none"
          /\ arg' = s =>
                /\ result' = [kind |-> "Err", err |-> s]
                /\ game'.board.xboard = game.board.xboard
                /\ game'.board.oboard = game.board.oboard ]_vars

\* the mover was refused a square it holds itself
C3_Witness ==
    /\ result.kind = "Err"
    /\ result.err = arg
    /\ arg \in Held(game.board, game.current_mark)

\* C4 (Turn alternation): a successful Game::make_move yields a Game whose
\* current_mark is other() of the old one; a failed one yields no Game and
\* the caller's Game keeps its current_mark and board.
C4_TurnAlternation ==
    [][ \A s \in Square :
          LET r == Game_make_move(game, s)
          IN  /\ r.ok => r.game.current_mark = Mark_other(game.current_mark)
              /\ ~r.ok => r.game = "none"
              /\ arg' = s =>
                    /\ r.ok => /\ result'.kind = "Ok"
                               /\ game'.current_mark = Mark_other(game.current_mark)
                               /\ game'.current_mark # game.current_mark
                    /\ ~r.ok => /\ result'.kind = "Err"
                                /\ game'.current_mark = game.current_mark
                                /\ game'.board = game.board ]_vars

\* a refused call after three successful ones: the mark that moved first is
\* not to move, and still is not after the failure
C4_Witness ==
    /\ result.kind = "Err"
    /\ Cardinality(OccupiedSquares(game.board)) = 3
    /\ Cardinality(Held(game.board, game.current_mark)) = 1

\* C5 as stated (Winner detection, positive): whenever a mark occupies all
\* three squares of a triple, calculate_winner returns that mark and that
\* exact triple.
C5_AsStated ==
    \A m \in Mark : \A t \in Complete(game.board, m) :
        Game_calculate_winner(game) = [kind |-> "Some", mark |-> m, triple |-> t]

\* C5 (amended): whenever a mark m occupies all three squares of a triple t,
\* calculate_winner returns m and t, provided no complete triple is ahead of
\* it: Cross completes no triple when m is Naught, and m completes no triple
\* earlier than t in the order RowA, RowB, RowC, Col1, Col2, Col3, Diag1,
\* Diag2.
C5_WinnerPositive ==
    \A m \in Mark : \A t \in Complete(game.board, m) :
        ( /\ m = "Naught" => Complete(game.board, "Cross") = {}
          /\ \A u \in Complete(game.board, m) : TripleOrd(t) <= TripleOrd(u) )
        => Game_calculate_winner(game) = [kind |-> "Some", mark |-> m, triple |-> t]

\* Naught alone has completed a triple, the second column
C5_Witness ==
    /\ Complete(game.board, "Naught") = {"Col2"}
    /\ Complete(game.board, "Cross") = {}
    /\ result.kind = "Ok"
    /\ arg \in TripleSquares("Col2")

\* C6 (Winner detection, negative): in every reachable state where each
\* mark occupies at most two squares of every triple, calculate_winner
\* returns None.
C6_WinnerNegative ==
    (\A m \in Mark : \A t \in Triple :
        Cardinality(TripleSquares(t) \cap Held(game.board, m)) <= 2)
    => Game_calculate_winner(game) = NoWinner

\* all nine squares are taken and nobody has a line
C6_Witness ==
    /\ OccupiedSquares(game.board) = Square
    /\ \A m \in Mark : \A t \in Triple :
          Cardinality(TripleSquares(t) \cap Held(game.board, m)) = 2
          \/ Cardinality(TripleSquares(t) \cap Held(game.board, m)) = 1
    /\ Game_calculate_winner(game) = NoWinner

\* C7 (No finished state): when calculate_winner already returns a winner,
\* Game::make_move into any still-empty square succeeds, flips the turn and
\* adds the square for the mover, as it does with no winner.
C7_NoFinishedState ==
    [][ Game_calculate_winner(game).kind = "Some" =>
          \A s \in Square \ OccupiedSquares(game.board) :
             LET r == Game_make_move(game, s)
             IN  /\ r.ok
                 /\ r.game.current_mark = Mark_other(game.current_mark)
                 /\ arg' = s =>
                      /\ result'.kind = "Ok"
                      /\ game' = r.game
                      /\ game'.current_mark = Mark_other(game.current_mark)
                      /\ Held(game'.board, game.current_mark)
                            = Held(game.board, game.current_mark) \cup {s}
                      /\ Held(game'.board, game'.current_mark)
                            = Held(game.board, game'.current_mark) ]_vars

\* the last move succeeded on a board that already had a winner
C7_Witness ==
    /\ result.kind = "Ok"
    /\ Board_calculate_winner(Previous).kind = "Some"
    /\ arg \in Held(game.board, Mark_other(game.current_mark))
    /\ arg \notin OccupiedSquares(Previous)

\* C8 as stated: no state reached by successful make_move calls has one
\* mark fully occupying two or more distinct triples.
C8_AsStated ==
    \A m \in Mark : Cardinality(Complete(game.board, m)) <= 1

\* C8 (amended): a mark fully occupies two or more distinct triples only
\* when it holds five squares, which happens only to the mark that moved
\* first once all nine squares are taken (it made the last move); it then
\* completes exactly two triples, and no state has a mark completing more.
C8_MultipleTriples ==
    \A m \in Mark :
        Cardinality(Complete(game.board, m)) >= 2 =>
            /\ Cardinality(Complete(game.board, m)) = 2
            /\ Cardinality(Held(game.board, m)) = 5
            /\ OccupiedSquares(game.board) = Square
            /\ game.current_mark = Mark_other(m)

\* one mark holds two complete triples
C8_Witness ==
    \E m \in Mark : Cardinality(Complete(game.board, m)) = 2

\* C9 (Cross priority): in every state where Cross and Naught each fully
\* occupy at least one triple, calculate_winner returns Cross with a triple
\* Cross has completed, never Naught.
C9_CrossPriority ==
    (Complete(game.board, "Cross") # {} /\ Complete(game.board, "Naught") # {})
    => /\ Game_calculate_winner(game).kind = "Some"
       /\ Game_calculate_winner(game).mark = "Cross"
       /\ Game_calculate_winner(game).triple \in Complete(game.board, "Cross")

\* both marks have a complete triple
C9_Witness ==
    /\ Complete(game.board, "Cross") # {}
    /\ Complete(game.board, "Naught") # {}
    /\ Game_calculate_winner(game).mark = "Cross"

\* C10 (Winner queries never fail): on every reachable Board the candidate
\* words never have bit 31 set, so leading_zeros is at least 1 and the
\* subtraction does not underflow, the index handed to Triple::from is in
\* 0..7, and calculate_winner never reaches the fatal branch.
C10_QueryNeverFails ==
    /\ Game_calculate_winner(game).kind # "Panic"
    /\ \A m \in Mark :
          LET cand == Candidate(MaskOf(game.board, m))
          IN  /\ (Width - 1) \notin cand
              /\ cand # {} => /\ leading_zeros(cand) >= 1
                              /\ TripleIndex(cand) \in 0..7
                              /\ Triple_from(TripleIndex(cand)) \in Triple

\* the query has answered with the triple of the largest index
C10_Witness ==
    /\ Game_calculate_winner(game).kind = "Some"
    /\ Game_calculate_winner(game).triple = "Diag2"
    /\ TripleIndex(Candidate(MaskOf(game.board, Game_calculate_winner(game).mark))) = 7

\* C11 (No stray bits): in every reachable Board each mask is the OR of
\* the constants of the squares its mark holds, a square's bits being all
\* present or all absent in a mask, and every set bit belongs to exactly
\* one occupied square.
C11_NoStrayBits ==
    /\ \A m \in Mark :
          /\ MaskOf(game.board, m) = OrOf(Held(game.board, m))
          /\ \A s \in Square :
                \/ SquareBits(s) \subseteq MaskOf(game.board, m)
                \/ BitAnd(SquareBits(s), MaskOf(game.board, m)) = {}
    /\ \A i \in BitOr(game.board.xboard, game.board.oboard) :
          Cardinality({ s \in OccupiedSquares(game.board) : i \in SquareBits(s) }) = 1

\* both masks are the OR of several squares, B2 with its four bits among them
C11_Witness ==
    /\ Cardinality(Held(game.board, "Cross")) >= 2
    /\ Cardinality(Held(game.board, "Naught")) >= 2
    /\ "B2" \in OccupiedSquares(game.board)
    /\ moves >= 4

\* C12 (Initial state): Game::new(m) yields a Game with current_mark = m
\* and both masks zero, so no square is occupied and there is no winner;
\* Game::default() yields the same Game as Game::new(Cross).
C12_InitialState ==
    /\ \A m \in Mark :
          /\ Game_new(m).current_mark = m
          /\ Game_new(m).board = [xboard |-> {}, oboard |-> {}]
    /\ Game_default = Game_new("Cross")
    /\ result.kind = "New" =>
          /\ ctor.op = "new" => game.current_mark = ctor.starting_mark
          /\ ctor.op = "default" => game = Game_new("Cross")
          /\ game.board.xboard = {}
          /\ game.board.oboard = {}
          /\ OccupiedSquares(game.board) = {}
          /\ Game_calculate_winner(game) = NoWinner

\* the Game as Game::default() left it
C12_Witness ==
    /\ ctor.op = "default"
    /\ result.kind = "New"
    /\ moves = 0
    /\ game.current_mark = "Cross"

\* C13 (Mark involution): for both marks other().other() is the mark
\* itself and other() is never its argument.
C13_MarkInvolution ==
    /\ \A m \in Mark :
          /\ Mark_other(m) \in Mark
          /\ Mark_other(Mark_other(m)) = m
          /\ Mark_other(m) # m
    /\ Mark_other(Mark_other(game.current_mark)) = game.current_mark

\* two successful moves have flipped the turn twice: the mark Game::new
\* was given is to move again
C13_Witness ==
    /\ ctor.op = "new"
    /\ moves = 2
    /\ result.kind = "Ok"
    /\ game.current_mark = ctor.starting_mark

\* C14 (Highest-order triple reported): when the reported mark fully
\* occupies several triples, calculate_winner reports the complete triple
\* of smallest index in the order RowA, RowB, RowC, Col1, Col2, Col3,
\* Diag1, Diag2, the one whose bit group is highest in the mask.
C14_HighestOrder ==
    result.kind = "Some" =>
        /\ result.triple \in Complete(game.board, result.mark)
        /\ \A u \in Complete(game.board, result.mark) :
              TripleOrd(result.triple) <= TripleOrd(u)
        /\ (Width - 2) - 4 * TripleOrd(result.triple)
              \in Candidate(MaskOf(game.board, result.mark))
        /\ \A i \in Candidate(MaskOf(game.board, result.mark)) :
              i <= (Width - 2) - 4 * TripleOrd(result.triple)

\* the query has answered RowB for a mark that holds three complete triples
C14_Witness ==
    /\ result.kind = "Some"
    /\ result.triple = "RowB"
    /\ Cardinality(Complete(game.board, result.mark)) = 3

\* a set of squares is recovered from the OR of its constants
SquaresIndependent ==
    \A S \in SUBSET Square :
        { s \in Square : SquareBits(s) \subseteq OrOf(S) } = S

\* C15 (Bit-trick exactness): for every set S of squares, with board the OR
\* of the constants of S, board & (board << 1) & (board >> 1) has a set bit
\* for triple i exactly when S contains the three squares of triple i, and
\* no other set bit.  Positions are counted from the most significant bit,
\* as leading_zeros counts them: the group of triple i is at positions 4i,
\* 4i + 1, 4i + 2 and its bit in the candidate word is the middle one,
\* 4i + 1.
C15_BitTrick ==
    /\ SquaresIndependent
    /\ \A m \in Mark :
          /\ \A t \in Triple :
                { (Width - 1) - p : p \in (4 * TripleOrd(t)) .. (4 * TripleOrd(t) + 2) }
                    \subseteq OrOf(TripleSquares(t))
          /\ Candidate(MaskOf(game.board, m))
                = { (Width - 1) - (4 * TripleOrd(t) + 1) : t \in Complete(game.board, m) }

\* a board whose Cross mask has two complete triples and two candidate bits
C15_Witness ==
    /\ result.kind = "Some"
    /\ Complete(game.board, "Cross") = {"Col3", "Diag2"}
    /\ Candidate(game.board.xboard) = {10, 2}

\* C16 (First win belongs to the mover): in the first state where
\* calculate_winner returns a winner, the mark returned is the one that made
\* the last successful move, other() of the new current_mark, and the triple
\* returned is fully occupied by that mark and contains the square just
\* played.
C16_FirstWin ==
    [][ ( /\ Game_calculate_winner(game) = NoWinner
          /\ Game_calculate_winner(game').kind # "None" )
        => /\ result'.kind = "Ok"
           /\ Game_calculate_winner(game').kind = "Some"
           /\ Game_calculate_winner(game').mark = Mark_other(game'.current_mark)
           /\ Game_calculate_winner(game').mark = game.current_mark
           /\ Game_calculate_winner(game').triple
                 \in Complete(game'.board, game.current_mark)
           /\ arg' \in TripleSquares(Game_calculate_winner(game').triple) ]_vars

\* the default game after B2 A2 B1 B3 C1 C3 A3: Cross has just won on Diag2
C16_Witness ==
    /\ ctor.op = "default"
    /\ moves = 7
    /\ result.kind = "Ok"
    /\ arg = "A3"
    /\ Held(game.board, "Cross") = {"B2", "B1", "C1", "A3"}
    /\ Held(game.board, "Naught") = {"A2", "B3", "C3"}
    /\ Board_calculate_winner(Previous) = NoWinner
    /\ Game_calculate_winner(game) = [kind |-> "Some", mark |-> "Cross", triple |-> "Diag2"]

\* C17 (Bounded play): at most 9 make_move calls succeed, each adding
\* exactly one square that was empty; once 9 have succeeded every square is
\* occupied and make_move fails with the occupied-square error for every
\* square.
C17_BoundedPlay ==
    [][ /\ moves <= 9
        /\ moves' <= 9
        /\ moves = Cardinality(OccupiedSquares(game.board))
        /\ result'.kind = "Ok" =>
              /\ moves' = moves + 1
              /\ arg' \notin OccupiedSquares(game.board)
              /\ OccupiedSquares(game'.board) = OccupiedSquares(game.board) \cup {arg'}
              /\ Cardinality(OccupiedSquares(game'.board))
                    = Cardinality(OccupiedSquares(game.board)) + 1
        /\ moves = 9 =>
              /\ OccupiedSquares(game.board) = Square
              /\ \A s \in Square :
                    /\ ~Game_make_move(game, s).ok
                    /\ Game_make_move(game, s).err = s
                    /\ arg' = s => result' = [kind |-> "Err", err |-> s] ]_vars

\* a call refused after nine successful ones
C17_Witness ==
    /\ moves = 9
    /\ result.kind = "Err"
    /\ OccupiedSquares(game.board) = Square

\* C18 (Move-count parity): in every state reached from Game::new(m), the
\* number of squares m holds minus the number other(m) holds is 0 or 1, and
\* current_mark is m exactly when the two numbers are equal.
C18_Parity ==
    ctor.op = "new" =>
        LET m == ctor.starting_mark
            mine == Cardinality(Held(game.board, m))
            theirs == Cardinality(Held(game.board, Mark_other(m)))
        IN  /\ mine - theirs \in {0, 1}
            /\ (game.current_mark = m) <=> (mine = theirs)

\* Game::new(Naught) after five moves: Naught holds three squares, Cross two
C18_Witness ==
    /\ ctor = [op |-> "new", starting_mark |-> "Naught"]
    /\ Cardinality(Held(game.board, "Naught")) = 3
    /\ Cardinality(Held(game.board, "Cross")) = 2
    /\ game.current_mark = "Cross"

\* C19 (Winner persistence): once calculate_winner returns a winner, it
\* returns a winner in every state reached by further make_move calls,
\* whether they succeed or fail.
C19_WinnerPersists ==
    [][ Game_calculate_winner(game).kind = "Some"
        => Game_calculate_winner(game').kind = "Some" ]_vars

\* a move has succeeded on a board with a winner, and the other mark has a
\* complete triple as well now
C19_Witness ==
    /\ result.kind = "Ok"
    /\ Board_calculate_winner(Previous).kind = "Some"
    /\ Complete(Previous, Mark_other(game.current_mark)) = {}
    /\ Complete(game.board, Mark_other(game.current_mark)) # {}
    /\ Game_calculate_winner(game).kind = "Some"

====
